---- MODULE Spec2Model ----
(***************************************************************************)
(* tinyrv out-of-order core: the instruction decoder (src/src/decode.cpp)  *)
(* and the Tomasulo pipeline stages issue / execute / writeback / commit   *)
(* (src/src/ooo.cpp).                                                      *)
(*                                                                         *)
(* Representation of 32-bit quantities.  The model checker's integers are  *)
(* 32-bit signed, so an instruction word is held as its two 16-bit halves  *)
(* [hi, lo], and a uint32_t data value (imm, operands, results, registers) *)
(* is held as the two's-complement signed reading of its 32 bits.          *)
(***************************************************************************)
EXTENDS Integers, Sequences, FiniteSets, TLC

(***************************************************************************)
(* Bounds of the model.                                                    *)
(***************************************************************************)
MaxFetch == 3
MaxLatency == 2
NumRS == 3
NumROB == 2

(***************************************************************************)
(* Enumerations of types.h, as used by decode.cpp.                         *)
(***************************************************************************)
Opcode ==
  [R |-> 51, L |-> 3, I |-> 19, S |-> 35, B |-> 99, LUI |-> 55,
   AUIPC |-> 23, JAL |-> 111, JALR |-> 103, SYS |-> 115, FENCE |-> 15]

OpcodeSet ==
  {Opcode.R, Opcode.L, Opcode.I, Opcode.S, Opcode.B, Opcode.LUI,
   Opcode.AUIPC, Opcode.JAL, Opcode.JALR, Opcode.SYS, Opcode.FENCE}

\* sc_instTable: opcode -> instruction type
sc_instTable(opcode) ==
  CASE opcode = Opcode.R     -> "R"
    [] opcode = Opcode.L     -> "I"
    [] opcode = Opcode.I     -> "I"
    [] opcode = Opcode.S     -> "S"
    [] opcode = Opcode.B     -> "B"
    [] opcode = Opcode.LUI   -> "U"
    [] opcode = Opcode.AUIPC -> "U"
    [] opcode = Opcode.JAL   -> "J"
    [] opcode = Opcode.JALR  -> "I"
    [] opcode = Opcode.SYS   -> "I"
    [] opcode = Opcode.FENCE -> "I"
    [] OTHER                 -> "none"

FUTypes == <<"ALU", "BRU", "LSU", "SFU">>

FUIndex(fu_type) ==
  CASE fu_type = "ALU" -> 1
    [] fu_type = "BRU" -> 2
    [] fu_type = "LSU" -> 3
    [] fu_type = "SFU" -> 4

(***************************************************************************)
(* Bit helpers.                                                            *)
(***************************************************************************)
Pow2(n) == 2 ^ n

\* sext(v, n): sign-extend the low n bits of v (n <= 21 here)
sext(v, n) ==
  LET m == v % Pow2(n)
  IN  IF m >= Pow2(n - 1) THEN m - Pow2(n) ELSE m

\* 32-bit wrap-around addition on the signed reading
MinInt32 == (0 - 2147483647) - 1

Add32(a, b) ==
  IF a >= 0 /\ b >= 0 /\ a > 2147483647 - b
    THEN (a + MinInt32) + (b + MinInt32)
  ELSE IF a < 0 /\ b < 0 /\ a < MinInt32 - b
    THEN (a - MinInt32) + (b - MinInt32)
  ELSE a + b

(***************************************************************************)
(* Fields of an instruction word (enum Constants: shifts and masks).       *)
(***************************************************************************)
F_opcode(w) == w.lo % 128
F_rd(w)     == (w.lo \div 128) % 32
F_func3(w)  == (w.lo \div 4096) % 8
F_rs1(w)    == (w.lo \div 32768) + 2 * (w.hi % 16)
F_rs2(w)    == (w.hi \div 16) % 32
F_func7(w)  == w.hi \div 512
\* variant of F_imm12: the word is shifted one position too far
F_imm12_Shift21(w) == w.hi \div 32

\* instr_code >> shift_rs2 (the upper 12 bits)
F_imm12(w)  == w.hi \div 16

NoFlags ==
  [use_rd |-> FALSE, use_rs1 |-> FALSE, use_rs2 |-> FALSE, use_imm |-> FALSE,
   alu_s1_PC |-> FALSE, alu_s1_inv |-> FALSE, alu_s1_rs1 |-> FALSE,
   alu_s2_imm |-> FALSE, alu_s2_csr |-> FALSE,
   is_load |-> FALSE, is_store |-> FALSE, is_csr |-> FALSE, is_exit |-> FALSE]

(***************************************************************************)
(* Core::decode, instruction type decoding: execution flags and immediate. *)
(* Result: [abort, flags, imm]; abort stands for a call of std::abort().   *)
(***************************************************************************)
DecodeType(w) ==
  LET opcode == F_opcode(w)
      func3  == F_func3(w)
      func7  == F_func7(w)
      rd     == F_rd(w)
      rs2    == F_rs2(w)
      ty     == sc_instTable(opcode)
      ok(f, i) == [abort |-> FALSE, flags |-> f, imm |-> i]
      fI  == [NoFlags EXCEPT !.use_rd = TRUE, !.use_rs1 = TRUE,
                             !.use_imm = TRUE, !.alu_s2_imm = TRUE]
      fSB == [NoFlags EXCEPT !.use_rs1 = TRUE, !.use_rs2 = TRUE,
                             !.use_imm = TRUE, !.alu_s2_imm = TRUE]
      fUJ == [NoFlags EXCEPT !.use_rd = TRUE, !.use_imm = TRUE,
                             !.alu_s2_imm = TRUE]
  IN
  CASE ty = "R" ->
         ok([NoFlags EXCEPT !.use_rd = TRUE, !.use_rs1 = TRUE,
                            !.use_rs2 = TRUE], 0)
    [] ty = "I" /\ opcode = Opcode.I ->
         IF func3 = 1 \/ func3 = 5
           THEN ok(fI, rs2)
           ELSE ok(fI, sext(F_imm12(w), 12))
    [] ty = "I" /\ opcode \in {Opcode.L, Opcode.JALR} ->
         ok(fI, sext(F_imm12(w), 12))
    [] ty = "I" /\ opcode = Opcode.SYS ->
         ok([NoFlags EXCEPT !.use_imm = TRUE,
                            !.use_rd  = (func3 # 0),
                            !.use_rs1 = (func3 # 0 /\ func3 < 5)],
            F_imm12(w))
    [] ty = "I" /\ opcode = Opcode.FENCE ->
         ok(NoFlags, 0)
    [] ty = "S" ->
         ok(fSB, sext(func7 * 32 + rd, 12))
    [] ty = "B" ->
         LET bit_11   == rd % 2
             bits_4_1 == rd \div 2
             bit_10_5 == func7 % 64
             bit_12   == func7 \div 64
             imm12    == bits_4_1 * 2 + bit_10_5 * 32 + bit_11 * 2048
                         + bit_12 * 4096
         IN  ok(fSB, sext(imm12, 13))
    [] ty = "U" ->
         LET shi == IF w.hi >= 32768 THEN w.hi - 65536 ELSE w.hi
         IN  ok(fUJ, shi * 65536 + (w.lo \div 4096) * 4096)
    [] ty = "J" ->
         LET unordered  == w.hi * 16 + (w.lo \div 4096)
             bits_19_12 == unordered % 256
             bit_11     == (unordered \div 256) % 2
             bits_10_1  == (unordered \div 512) % 1024
             bit_20     == (unordered \div 524288) % 2
             imm20      == bits_10_1 * 2 + bit_11 * 2048 + bits_19_12 * 4096
                           + bit_20 * 1048576
         IN  ok(fUJ, sext(imm20, 21))
    [] OTHER -> [abort |-> TRUE, flags |-> NoFlags, imm |-> 0]

\* variant of X0Rule: the x0 check is missing
X0Rule_NoCheck(flags, rd) == flags

\* "prevent write to x0"
X0Rule(flags, rd) ==
  IF flags.use_rd /\ rd = 0 THEN [flags EXCEPT !.use_rd = FALSE] ELSE flags

(***************************************************************************)
(* Core::decode, instruction opcode decoding: alu_op, br_op and the        *)
(* remaining flags.  Result: [abort, alu_op, br_op, flags].                *)
(***************************************************************************)
DecodeOp(opcode, func3, func7, imm, flags) ==
  LET ok(a, b, f) == [abort |-> FALSE, alu_op |-> a, br_op |-> b, flags |-> f]
      die         == [abort |-> TRUE, alu_op |-> "NONE", br_op |-> "NONE",
                      flags |-> flags]
      s1pc        == [flags EXCEPT !.alu_s1_PC = TRUE]
      csr         == [flags EXCEPT !.is_csr = TRUE, !.alu_s2_csr = TRUE]
  IN
  CASE opcode = Opcode.LUI   -> ok("ADD", "NONE", flags)
    [] opcode = Opcode.AUIPC -> ok("ADD", "NONE", s1pc)
    [] opcode \in {Opcode.R, Opcode.I} ->
         ok(CASE func3 = 0 -> IF opcode = Opcode.R /\ func7 # 0
                                THEN "SUB" ELSE "ADD"
              [] func3 = 1 -> "SLL"
              [] func3 = 2 -> "LTI"
              [] func3 = 3 -> "LTU"
              [] func3 = 4 -> "XOR"
              [] func3 = 5 -> IF func7 # 0 THEN "SRA" ELSE "SRL"
              [] func3 = 6 -> "OR"
              [] func3 = 7 -> "AND",
            "NONE", flags)
    [] opcode = Opcode.B ->
         CASE func3 = 0 -> ok("ADD", "BEQ", s1pc)
           [] func3 = 1 -> ok("ADD", "BNE", s1pc)
           [] func3 = 4 -> ok("ADD", "BLT", s1pc)
           [] func3 = 5 -> ok("ADD", "BGE", s1pc)
           [] func3 = 6 -> ok("ADD", "BLTU", s1pc)
           [] func3 = 7 -> ok("ADD", "BGEU", s1pc)
           [] OTHER     -> die
    [] opcode = Opcode.JAL   -> ok("ADD", "JAL", s1pc)
    [] opcode = Opcode.JALR  -> ok("ADD", "JALR", flags)
    [] opcode = Opcode.L     -> ok("ADD", "NONE", [flags EXCEPT !.is_load = TRUE])
    [] opcode = Opcode.S     -> ok("ADD", "NONE", [flags EXCEPT !.is_store = TRUE])
    [] opcode = Opcode.SYS ->
         IF func3 = 0
           THEN CASE imm \in {0, 1}       -> ok("ADD", "NONE",
                                               [flags EXCEPT !.is_exit = TRUE])
                  [] imm \in {2, 258, 770} -> ok("ADD", "NONE", flags)
                  [] OTHER                 -> die
           ELSE CASE func3 = 1 -> ok("ADD", "NONE", csr)
                  [] func3 = 2 -> ok("OR", "NONE", csr)
                  [] func3 = 3 -> ok("AND", "NONE",
                                     [csr EXCEPT !.alu_s1_inv = TRUE])
                  [] func3 = 5 -> ok("ADD", "NONE",
                                     [csr EXCEPT !.alu_s1_rs1 = TRUE])
                  [] func3 = 6 -> ok("OR", "NONE",
                                     [csr EXCEPT !.alu_s1_rs1 = TRUE])
                  [] func3 = 7 -> ok("AND", "NONE",
                                     [csr EXCEPT !.alu_s1_inv = TRUE,
                                                 !.alu_s1_rs1 = TRUE])
                  [] OTHER     -> die
    [] opcode = Opcode.FENCE -> ok("NONE", "NONE", flags)
    [] OTHER -> die

\* Functional unit type decoding
DecodeFU(flags, br_op) ==
  IF flags.is_load \/ flags.is_store THEN "LSU"
  ELSE IF flags.is_csr THEN "SFU"
  ELSE IF br_op # "NONE" THEN "BRU"
  ELSE "ALU"

(***************************************************************************)
(* Core::decode.  Result kind: "instr" (a descriptor is returned), "null"  *)
(* (nullptr is returned) or "abort" (std::abort() ends the process).       *)
(***************************************************************************)
NoInstr ==
  [kind |-> "null", uuid |-> 0, PC |-> 0, opcode |-> 0, rd |-> 0, rs1 |-> 0,
   rs2 |-> 0, imm |-> 0, func3 |-> 0, func7 |-> 0, alu_op |-> "NONE",
   br_op |-> "NONE", fu_type |-> "NONE", exe_flags |-> NoFlags]

decode(w, PC, uuid) ==
  LET opcode == F_opcode(w)
      func3  == F_func3(w)
      func7  == F_func7(w)
      rd     == F_rd(w)
      t      == DecodeType(w)
      flags1 == X0Rule(t.flags, rd)
      o      == DecodeOp(opcode, func3, func7, t.imm, flags1)
  IN
  IF sc_instTable(opcode) = "none" THEN NoInstr
  ELSE IF t.abort \/ o.abort THEN [NoInstr EXCEPT !.kind = "abort"]
  ELSE [kind |-> "instr", uuid |-> uuid, PC |-> PC, opcode |-> opcode,
        rd |-> rd, rs1 |-> F_rs1(w), rs2 |-> F_rs2(w), imm |-> t.imm,
        func3 |-> func3, func7 |-> func7, alu_op |-> o.alu_op,
        br_op |-> o.br_op, fu_type |-> DecodeFU(o.flags, o.br_op),
        exe_flags |-> o.flags]

(***************************************************************************)
(* Instruction words, assembled from their fields.                         *)
(***************************************************************************)
Word(func7, rs2, rs1, func3, rd, opcode) ==
  [hi |-> func7 * 512 + rs2 * 16 + (rs1 \div 2),
   lo |-> (rs1 % 2) * 32768 + func3 * 4096 + rd * 128 + opcode]

\* I-type word with a 12-bit immediate field
WordI(imm12, rs1, func3, rd, opcode) ==
  Word(imm12 \div 32, imm12 % 32, rs1, func3, rd, opcode)

(***************************************************************************)
(* The instruction stream offered by the front end.                        *)
(***************************************************************************)
ADDI_x1_x0_1 == WordI(1, 0, 0, 1, Opcode.I)
ADDI_x2_x1_2 == WordI(2, 1, 0, 2, Opcode.I)
JAL_x0_4     == Word(0, 4, 0, 0, 0, Opcode.JAL)
ECALL        == WordI(0, 0, 0, 0, Opcode.SYS)
ADDI_x1_x1_1 == WordI(1, 1, 0, 1, Opcode.I)

Program ==
  {ADDI_x1_x0_1, ADDI_x2_x1_2, JAL_x0_4, ECALL, ADDI_x1_x1_1}

Regs == 0 .. 31
RobIdx == 0 .. (NumROB - 1)
RsIdx == 0 .. (NumRS - 1)
FuIdx == 1 .. 4

VARIABLES
  stage,          \* the pipeline method the driver calls next
  issue_queue,    \* issue_queue_: decoded instructions, in fetch order
  RAT,            \* RAT_: register -> ROB index, -1 when not mapped
  ROB,            \* ROB_: [store, head, tail, count]
  RS,             \* RS_: reservation station entries
  RST,            \* RST_
  CDB,            \* CDB_: single slot
  FUs,            \* FUs_: ALU, BRU, LSU, SFU
  reg_file,       \* reg_file_
  instrs,         \* perf_stats_.instrs (retired instructions)
  fetched_instrs, \* fetched_instrs_
  exited,         \* exited_
  issued,         \* history: uuids in the order ROB_.allocate was called
  retired,        \* history: uuids in the order commit retired them
  seq_reg,        \* history: register file of the in-order reference run
  exec_pushes,    \* history: CDB_.push calls made by the last execute call
  exec_cleared,   \* history: FUs cleared by the last execute call
  exec_sched,     \* history: per FU, the fu->issue() calls of the last execute
                  \* call and whether the unit held an operation at that point
  dec_word,       \* decoder harness: the instruction word given to decode
  dec_out         \* decoder harness: what decode did with it

vars ==
  <<stage, issue_queue, RAT, ROB, RS, RST, CDB, FUs, reg_file, instrs,
    fetched_instrs, exited, issued, retired, seq_reg, exec_pushes,
    exec_cleared, exec_sched, dec_word, dec_out>>

decVars == <<dec_word, dec_out>>

pipeVars ==
  <<issue_queue, RAT, ROB, RS, RST, CDB, FUs, reg_file, instrs,
    fetched_instrs, exited, issued, retired, seq_reg, exec_pushes,
    exec_cleared,
                 exec_sched>>

(***************************************************************************)
(* Register alias table.                                                   *)
(***************************************************************************)
RAT_exists(rat, r) == rat[r] # -1
RAT_get(rat, r) == rat[r]
RAT_set(rat, r, v) == [rat EXCEPT ![r] = v]
RAT_clear(rat, r) == [rat EXCEPT ![r] = -1]

(***************************************************************************)
(* Reorder buffer: circular FIFO.                                          *)
(***************************************************************************)
NoRobEntry == [instr |-> NoInstr, result |-> 0, ready |-> FALSE]

ROB_full(rob) == rob.count = NumROB
ROB_empty(rob) == rob.count = 0
ROB_head_index(rob) == rob.head
ROB_get_entry(rob, i) == rob.store[i]

\* allocate returns the slot index rob.tail
ROB_allocate(rob, instr) ==
  [rob EXCEPT !.store[rob.tail] = [NoRobEntry EXCEPT !.instr = instr],
              !.tail = (rob.tail + 1) % NumROB,
              !.count = rob.count + 1]

ROB_update(rob, cdb_data) ==
  [rob EXCEPT !.store[cdb_data.rob_index].result = cdb_data.result,
              !.store[cdb_data.rob_index].ready = TRUE]

ROB_pop(rob) ==
  [rob EXCEPT !.store[rob.head] = NoRobEntry,
              !.head = (rob.head + 1) % NumROB,
              !.count = rob.count - 1]

\* the slots holding an issued and not yet retired instruction
ROB_allocated(rob) == {(rob.head + k) % NumROB : k \in 0 .. (rob.count - 1)}

\* position of slot i counted from the head
ROB_age(rob, i) == (i + NumROB - rob.head) % NumROB

(***************************************************************************)
(* Reservation stations.                                                   *)
(***************************************************************************)
NoRsEntry ==
  [valid |-> FALSE, running |-> FALSE, instr |-> NoInstr, rob_index |-> 0,
   rs1_index |-> -1, rs2_index |-> -1, rs1_data |-> 0, rs2_data |-> 0]

RS_full(rs) == \A i \in RsIdx : rs[i].valid
RS_free(rs) == {i \in RsIdx : ~rs[i].valid}

RS_issue(rs, s, rob_index, rs1_index, rs2_index, rs1_data, rs2_data, instr) ==
  [rs EXCEPT ![s] =
     [valid |-> TRUE, running |-> FALSE, instr |-> instr,
      rob_index |-> rob_index, rs1_index |-> rs1_index,
      rs2_index |-> rs2_index, rs1_data |-> rs1_data, rs2_data |-> rs2_data]]

RS_release(rs, s) == [rs EXCEPT ![s] = NoRsEntry]

operands_ready(e) == e.rs1_index = -1 /\ e.rs2_index = -1

update_operands(e, cdb_data) ==
  LET e1 == IF e.rs1_index = cdb_data.rs_index
              THEN [e EXCEPT !.rs1_index = -1, !.rs1_data = cdb_data.result]
              ELSE e
  IN  IF e1.rs2_index = cdb_data.rs_index
        THEN [e1 EXCEPT !.rs2_index = -1, !.rs2_data = cdb_data.result]
        ELSE e1

\* an LSU entry is locked while an older store has not committed
RS_locked(rs, rob, s) ==
  /\ rs[s].instr.fu_type = "LSU"
  /\ \E i \in ROB_allocated(rob) :
       /\ ROB_age(rob, i) < ROB_age(rob, rs[s].rob_index)
       /\ rob.store[i].instr.exe_flags.is_store

(***************************************************************************)
(* Common data bus.                                                        *)
(***************************************************************************)
NoCdb == [valid |-> FALSE, result |-> 0, rob_index |-> 0, rs_index |-> 0]

CDB_empty(cdb) == ~cdb.valid

\* a push on a full bus fails: the bus keeps what it holds
CDB_push(cdb, result, rob_index, rs_index) ==
  IF cdb.valid THEN cdb
  ELSE [valid |-> TRUE, result |-> result, rob_index |-> rob_index,
        rs_index |-> rs_index]

CDB_pop(cdb) == NoCdb

(***************************************************************************)
(* Functional units.                                                       *)
(***************************************************************************)
NoFu ==
  [busy |-> FALSE, done |-> FALSE, age |-> 0, result |-> 0, rob_index |-> 0,
   rs_index |-> 0]

\* the value an operation produces
FU_result(instr, op1_val, op2_val) ==
  LET s1 == IF instr.exe_flags.alu_s1_PC THEN instr.PC ELSE op1_val
      s2 == IF instr.exe_flags.alu_s2_imm THEN instr.imm ELSE op2_val
  IN  IF instr.br_op \in {"JAL", "JALR"} THEN Add32(instr.PC, 4)
      ELSE IF instr.br_op # "NONE" THEN 0
      ELSE IF instr.alu_op = "ADD" THEN Add32(s1, s2)
      ELSE 0

\* issue on a busy unit is undefined: the unit takes the new operation
\* (overwrite) or keeps the one it holds
FU_issue(fu, instr, rob_index, rs_index, op1_val, op2_val, overwrite) ==
  IF fu.busy /\ ~overwrite THEN fu
  ELSE [busy |-> TRUE, done |-> FALSE, age |-> 0,
        result |-> FU_result(instr, op1_val, op2_val),
        rob_index |-> rob_index, rs_index |-> rs_index]

\* one cycle of a unit; finish: the operation completes in this cycle
FU_execute(fu, finish) ==
  IF fu.busy /\ ~fu.done
    THEN [fu EXCEPT !.age = fu.age + 1,
                    !.done = finish \/ fu.age + 1 >= MaxLatency]
    ELSE fu

FU_done(fu) == fu.done
FU_get_output(fu) ==
  [result |-> fu.result, rob_index |-> fu.rob_index, rs_index |-> fu.rs_index]
FU_clear(fu) == NoFu

(***************************************************************************)
(* Initial state: empty pipeline, register file all zero.                  *)
(***************************************************************************)
DecIdle == [NoInstr EXCEPT !.kind = "idle"]

PipeInit ==
  /\ issue_queue = << >>
  /\ RAT = [r \in Regs |-> -1]
  /\ ROB = [store |-> [i \in RobIdx |-> NoRobEntry], head |-> 0, tail |-> 0,
            count |-> 0]
  /\ RS = [i \in RsIdx |-> NoRsEntry]
  /\ RST = [i \in (-1) .. (NumROB - 1) |-> -1]
  /\ CDB = NoCdb
  /\ FUs = [f \in FuIdx |-> NoFu]
  /\ reg_file = [r \in Regs |-> 0]
  /\ instrs = 0
  /\ fetched_instrs = 0
  /\ exited = FALSE
  /\ issued = << >>
  /\ retired = << >>
  /\ seq_reg = [r \in Regs |-> 0]
  /\ exec_pushes = 0
  /\ exec_cleared = 0
  /\ exec_sched = [f \in FuIdx |-> [calls |-> 0, held |-> FALSE]]

Init ==
  /\ stage = "commit"
  /\ PipeInit
  /\ dec_word = [hi |-> 0, lo |-> 0]
  /\ dec_out = DecIdle

(***************************************************************************)
(* Core::issue                                                             *)
(***************************************************************************)
\* variant of IssueOperand: a ready ROB entry is not looked at, the register
\* file is read instead
IssueOperand_NoForward(use, r, rat, rob, regs) ==
  IF use
    THEN IF RAT_exists(rat, r)
           THEN LET rob_id == RAT_get(rat, r)
                    rob_entry == ROB_get_entry(rob, rob_id)
                IN  IF rob_entry.ready
                      THEN [data |-> regs[r], rsid |-> -1]
                      ELSE [data |-> 0, rsid |-> rob_id]
           ELSE [data |-> regs[r], rsid |-> -1]
    ELSE [data |-> 0, rsid |-> -1]

\* operand lookup: [data, rsid]
IssueOperand(use, r, rat, rob, regs) ==
  IF use
    THEN IF RAT_exists(rat, r)
           THEN LET rob_id == RAT_get(rat, r)
                    rob_entry == ROB_get_entry(rob, rob_id)
                IN  IF rob_entry.ready
                      THEN [data |-> rob_entry.result, rsid |-> -1]
                      ELSE [data |-> 0, rsid |-> rob_id]
           ELSE [data |-> regs[r], rsid |-> -1]
    ELSE [data |-> 0, rsid |-> -1]

\* "update the RAT mapping if this instruction write to the register file"
IssueRAT(rat, instr, rob_index) ==
  IF instr.exe_flags.use_rd THEN RAT_set(rat, instr.rd, rob_index) ELSE rat

\* variant of IssueStall: the ROB is not checked
IssueStall_NoROBCheck(queue, rs, rob) == queue = << >> \/ RS_full(rs)

\* "check for structial hazards": the early returns of issue
IssueStall(queue, rs, rob) ==
  queue = << >> \/ RS_full(rs) \/ ROB_full(rob)

issue ==
  /\ stage = "issue"
  /\ UNCHANGED decVars
  /\ stage' = "fetch"
  /\ UNCHANGED <<CDB, FUs, reg_file, instrs, fetched_instrs, exited, retired,
                 seq_reg, exec_pushes, exec_cleared,
                 exec_sched>>
  /\ IF IssueStall(issue_queue, RS, ROB)
       THEN UNCHANGED <<issue_queue, RAT, ROB, RS, RST, issued>>
       ELSE LET instr == Head(issue_queue)
                op1 == IssueOperand(instr.exe_flags.use_rs1, instr.rs1, RAT,
                                    ROB, reg_file)
                op2 == IssueOperand(instr.exe_flags.use_rs2, instr.rs2, RAT,
                                    ROB, reg_file)
                rob_index == ROB.tail
            IN  /\ ROB' = ROB_allocate(ROB, instr)
                /\ RAT' = IssueRAT(RAT, instr, rob_index)
                /\ \E rs_index \in RS_free(RS) :
                     /\ RS' = RS_issue(RS, rs_index, rob_index, op1.rsid,
                                       op2.rsid, op1.data, op2.data, instr)
                     /\ RST' = [RST EXCEPT ![op1.rsid] = rs_index,
                                           ![op2.rsid] = rs_index]
                /\ issue_queue' = Tail(issue_queue)
                /\ issued' = Append(issued, instr.uuid)

(***************************************************************************)
(* Core::execute                                                           *)
(***************************************************************************)
\* first loop: every functional unit advances one cycle
ExecTick(fus, fin) == [f \in FuIdx |-> FU_execute(fus[f], f \in fin)]

\* second loop: the units that report done, in scan order
ExecDone(fus) == {f \in FuIdx : FU_done(fus[f])}

RECURSIVE ExecPush(_, _, _)
ExecPush(f, fus, cdb) ==
  IF f > 4 THEN cdb
  ELSE IF FU_done(fus[f])
    THEN LET output == FU_get_output(fus[f])
         IN  ExecPush(f + 1, fus,
                      CDB_push(cdb, output.result, output.rob_index,
                               output.rs_index))
    ELSE ExecPush(f + 1, fus, cdb)

ExecClear(fus) ==
  [f \in FuIdx |-> IF FU_done(fus[f]) THEN FU_clear(fus[f]) ELSE fus[f]]

\* variant of ExecCandidate: operands_ready() is not asked
ExecCandidate_NoOperandCheck(rs, rob, i) ==
  /\ rs[i].valid
  /\ ~rs[i].running
  /\ ~RS_locked(rs, rob, i)

\* third loop: the entries the scheduler dispatches
ExecCandidate(rs, rob, i) ==
  /\ rs[i].valid
  /\ ~rs[i].running
  /\ operands_ready(rs[i])
  /\ ~RS_locked(rs, rob, i)

RECURSIVE ExecDispatch(_, _, _, _, _)
ExecDispatch(i, fus, rs, rob, ovr) ==
  IF i >= NumRS THEN [fus |-> fus, rs |-> rs]
  ELSE IF ExecCandidate(rs, rob, i)
    THEN LET entry == rs[i]
             f == FUIndex(entry.instr.fu_type)
             fu == FU_issue(fus[f], entry.instr, entry.rob_index, i,
                            entry.rs1_data, entry.rs2_data, i \in ovr)
         IN  ExecDispatch(i + 1, [fus EXCEPT ![f] = fu],
                          [rs EXCEPT ![i].running = TRUE], rob, ovr)
    ELSE ExecDispatch(i + 1, fus, rs, rob, ovr)

\* the dispatches that meet a unit already holding an operation
ExecColliding(fus, rs, rob) ==
  {i \in RsIdx :
     /\ ExecCandidate(rs, rob, i)
     /\ \/ fus[FUIndex(rs[i].instr.fu_type)].busy
        \/ \E j \in RsIdx : /\ j < i
                            /\ ExecCandidate(rs, rob, j)
                            /\ rs[j].instr.fu_type = rs[i].instr.fu_type}

\* per unit: how many entries the scheduling loop hands to it, and whether it
\* still holds an operation when the loop starts
ExecSched(fus, rs, rob) ==
  [f \in FuIdx |->
     [calls |-> Cardinality({i \in RsIdx : /\ ExecCandidate(rs, rob, i)
                                           /\ FUIndex(rs[i].instr.fu_type) = f}),
      held  |-> fus[f].busy]]

execute ==
  /\ stage = "execute"
  /\ UNCHANGED decVars
  /\ stage' = "issue"
  /\ UNCHANGED <<issue_queue, RAT, ROB, RST, reg_file, instrs, fetched_instrs,
                 exited, issued, retired, seq_reg>>
  /\ \E fin \in SUBSET {f \in FuIdx : FUs[f].busy /\ ~FUs[f].done} :
       LET fus1 == ExecTick(FUs, fin)
           fus2 == ExecClear(fus1)
       IN  /\ CDB' = ExecPush(1, fus1, CDB)
           /\ exec_pushes' = Cardinality(ExecDone(fus1))
           /\ exec_cleared' = Cardinality(ExecDone(fus1))
           /\ exec_sched' = ExecSched(fus2, RS, ROB)
           /\ \E ovr \in SUBSET ExecColliding(fus2, RS, ROB) :
                LET d == ExecDispatch(0, fus2, RS, ROB, ovr)
                IN  /\ FUs' = d.fus
                    /\ RS' = d.rs

(***************************************************************************)
(* Core::writeback                                                         *)
(***************************************************************************)
\* variant of WbOperands: only the entries below the released slot are updated
WbOperands_Partial(rs, cdb_data) ==
  [i \in RsIdx |-> IF i < cdb_data.rs_index
                     THEN update_operands(rs[i], cdb_data)
                     ELSE rs[i]]

\* "update all reservation stations waiting for operands"
WbOperands(rs, cdb_data) ==
  [i \in RsIdx |-> update_operands(rs[i], cdb_data)]

writeback ==
  /\ stage = "writeback"
  /\ UNCHANGED decVars
  /\ stage' = "execute"
  /\ UNCHANGED <<issue_queue, RAT, RST, FUs, reg_file, instrs, fetched_instrs,
                 exited, issued, retired, seq_reg, exec_pushes, exec_cleared,
                 exec_sched>>
  /\ IF CDB_empty(CDB)
       THEN UNCHANGED <<RS, ROB, CDB>>
       ELSE LET cdb_data == CDB
                rs1 == WbOperands(RS, cdb_data)
            IN  /\ RS' = RS_release(rs1, cdb_data.rs_index)
                /\ ROB' = ROB_update(ROB, cdb_data)
                /\ CDB' = CDB_pop(CDB)

(***************************************************************************)
(* Core::commit                                                            *)
(***************************************************************************)
\* variant of CommitReady: the head retires whether ready or not
CommitReady_Always(rob_head) == TRUE

\* "check if the head entry is ready to commit"
CommitReady(rob_head) == rob_head.ready

\* variant of CommitRAT: the mapping is never cleared
CommitRAT_Never(rat, rd, head_index) == rat

\* variant of CommitRAT: commit points the mapping at the retiring slot
CommitRAT_Set(rat, rd, head_index) == RAT_set(rat, rd, head_index)

\* variant of CommitRAT: the mapping is cleared without the comparison
CommitRAT_Always(rat, rd, head_index) == RAT_clear(rat, rd)

\* "(2) clear the RAT if still pointing to this ROB head"
CommitRAT(rat, rd, head_index) ==
  IF RAT_get(rat, rd) = head_index THEN RAT_clear(rat, rd) ELSE rat

\* variant of CommitCount: the counter is bumped twice
CommitCount_Twice(n) == n + 2

\* ++perf_stats_.instrs
CommitCount(n) == n + 1

\* variant of CommitExit: every retirement sets exited_
CommitExit_Always(exe_flags, ex) == TRUE

\* "handle program termination"
CommitExit(exe_flags, ex) == IF exe_flags.is_exit THEN TRUE ELSE ex

commit ==
  /\ stage = "commit"
  /\ UNCHANGED decVars
  /\ stage' = "writeback"
  /\ UNCHANGED <<issue_queue, RS, RST, CDB, FUs, fetched_instrs, issued,
                 seq_reg, exec_pushes, exec_cleared,
                 exec_sched>>
  /\ IF ROB_empty(ROB)
       THEN UNCHANGED <<RAT, ROB, reg_file, instrs, exited, retired>>
       ELSE LET head_index == ROB_head_index(ROB)
                rob_head == ROB_get_entry(ROB, head_index)
                instr == rob_head.instr
                exe_flags == instr.exe_flags
            IN  IF CommitReady(rob_head)
                  THEN /\ IF exe_flags.use_rd
                            THEN /\ reg_file' = [reg_file EXCEPT
                                                   ![instr.rd] = rob_head.result]
                                 /\ RAT' = CommitRAT(RAT, instr.rd, head_index)
                            ELSE UNCHANGED <<reg_file, RAT>>
                       /\ ROB' = ROB_pop(ROB)
                       /\ instrs' = CommitCount(instrs)
                       /\ exited' = CommitExit(exe_flags, exited)
                       /\ retired' = Append(retired, instr.uuid)
                  ELSE UNCHANGED <<RAT, ROB, reg_file, instrs, exited, retired>>

(***************************************************************************)
(* Front end and driver: fetch and decode one instruction per cycle into   *)
(* the issue queue when it is empty; the driver stops after the cycle in   *)
(* which exited is set.                                                    *)
(***************************************************************************)
\* the in-order reference: the instruction applied to the register file
SeqStep(regs, instr) ==
  IF instr.exe_flags.use_rd
    THEN [regs EXCEPT ![instr.rd] =
            FU_result(instr,
                      IF instr.exe_flags.use_rs1 THEN regs[instr.rs1] ELSE 0,
                      IF instr.exe_flags.use_rs2 THEN regs[instr.rs2] ELSE 0)]
    ELSE regs

fetch ==
  /\ stage = "fetch"
  /\ UNCHANGED decVars
  /\ stage' = IF exited THEN "halt" ELSE "commit"
  /\ UNCHANGED <<RAT, ROB, RS, RST, CDB, FUs, reg_file, instrs, exited,
                 issued, retired, exec_pushes, exec_cleared,
                 exec_sched>>
  /\ IF issue_queue = << >> /\ fetched_instrs < MaxFetch /\ ~exited
       THEN \E w \in Program :
              LET instr == decode(w, 4 * fetched_instrs, fetched_instrs + 1)
              IN  /\ fetched_instrs' = fetched_instrs + 1
                  /\ issue_queue' = Append(issue_queue, instr)
                  /\ seq_reg' = SeqStep(seq_reg, instr)
       ELSE UNCHANGED <<issue_queue, fetched_instrs, seq_reg>>

Next == commit \/ writeback \/ execute \/ issue \/ fetch

Spec == Init /\ [][Next]_vars

\* the driver keeps calling the stages, cycle after cycle, until it halts
SpecLive == Init /\ [][Next]_vars /\ WF_vars(Next)

(***************************************************************************)
(* The decoder on its own: decode applied to one instruction word drawn    *)
(* from DecodeWords.                                                       *)
(***************************************************************************)
DecodeOpcodes == OpcodeSet \cup {0, 91, 127}
DecodeUpper12 == {0, 1, 2, 3, 32, 258, 770, 1024, 2048, 4095}
DecodeRds == {0, 1, 31}
DecodeRs1s == {0, 31}

DecodeWords ==
  {WordI(u, rs1, f3, rd, op) :
     u \in DecodeUpper12, rs1 \in DecodeRs1s, f3 \in 0 .. 7,
     rd \in DecodeRds, op \in DecodeOpcodes}

InitDecode ==
  /\ stage = "decode"
  /\ PipeInit
  /\ dec_word \in DecodeWords
  /\ dec_out = DecIdle

DecodeCall ==
  /\ stage = "decode"
  /\ dec_out.kind = "idle"
  /\ dec_out' = decode(dec_word, 0, 1)
  /\ UNCHANGED <<stage, dec_word>>
  /\ UNCHANGED pipeVars

NextDecode == DecodeCall

SpecDecode == InitDecode /\ [][NextDecode]_vars

(***************************************************************************)
(* Properties of the pipeline.                                             *)
(***************************************************************************)
HeadEntry == ROB.store[ROB.head]

\* a step in which commit retires the ROB head
Retires == retired' # retired

IsPrefix(a, b) ==
  /\ Len(a) <= Len(b)
  /\ \A i \in 1 .. Len(a) : a[i] = b[i]

\* C1: in-order commit.  The instructions retired so far are, in order, the
\* first instructions that issue allocated in the ROB; a step retires at most
\* one instruction, only in commit, and only the ROB head with ready set.
C1_InOrderCommit ==
  /\ [](IsPrefix(retired, issued))
  /\ [][Retires =>
          /\ stage = "commit"
          /\ ~ROB_empty(ROB)
          /\ HeadEntry.ready
          /\ retired' = Append(retired, HeadEntry.instr.uuid)
          /\ ROB'.count = ROB.count - 1]_vars

\* two instructions have retired while a later one is still in the ROB
C1_Witness == Len(retired) >= 2 /\ ROB.count >= 1

\* C3: RAT invariant.  Every mapping RAT[r] = t names an allocated ROB slot
\* whose instruction writes register r.
C3_RATInvariant ==
  \A r \in Regs :
    RAT[r] # -1 =>
      /\ RAT[r] \in ROB_allocated(ROB)
      /\ ROB.store[RAT[r]].instr.exe_flags.use_rd
      /\ ROB.store[RAT[r]].instr.rd = r

\* a mapping is live after an earlier instruction has been retired
C3_Witness == instrs >= 1 /\ \E r \in Regs : RAT[r] # -1

\* C6: commit of a ready head with use_rd writes the result to reg_file[rd];
\* RAT[rd] is cleared exactly when it names the retiring slot and is left as
\* it is when it names a later writer; no other mapping changes.
C6_CommitRAT ==
  [][(stage = "commit" /\ ~ROB_empty(ROB) /\ HeadEntry.ready
        /\ HeadEntry.instr.exe_flags.use_rd) =>
       LET rd == HeadEntry.instr.rd
       IN  /\ reg_file'[rd] = HeadEntry.result
           /\ RAT[rd] = ROB.head => RAT'[rd] = -1
           /\ RAT[rd] # ROB.head => RAT'[rd] = RAT[rd]
           /\ \A r \in Regs \ {rd} : RAT'[r] = RAT[r]]_vars

\* a first writer of x1 has committed its value and RAT[1] still names a
\* second writer of x1, which is in flight
C6_Witness ==
  /\ instrs >= 1
  /\ reg_file[1] = 1
  /\ RAT[1] # -1
  /\ ROB.store[RAT[1]].instr.rd = 1

\* C7: register x0 is never renamed and never written.
C7_X0 == RAT[0] = -1 /\ reg_file[0] = 0

\* an instruction word with rd = 0 of a class that writes rd has been issued
\* and its result is in the ROB, and an instruction has been retired
C7_Witness ==
  /\ instrs >= 1
  /\ \E i \in ROB_allocated(ROB) :
       /\ ROB.store[i].ready
       /\ ROB.store[i].instr.opcode = Opcode.JAL
       /\ ROB.store[i].instr.rd = 0

\* C8: a retirement of an is_exit instruction leaves exited set; once exited
\* is set nothing is retired; exited is only ever set by the retirement of an
\* is_exit instruction.
C8_Exit ==
  [][/\ (Retires /\ HeadEntry.instr.exe_flags.is_exit) => exited'
     /\ exited => ~Retires
     /\ (~exited /\ exited') =>
          (Retires /\ HeadEntry.instr.exe_flags.is_exit)]_vars

\* the driver has stopped after an exit with an instruction still in the ROB
C8_Witness == exited /\ stage = "halt" /\ ROB.count >= 1

\* C9: retired_instrs <= fetched_instrs, before and after the increment.
C9_RetiredLeFetched == instrs <= fetched_instrs

\* every fetched instruction has been retired
C9_Witness == instrs = fetched_instrs /\ instrs >= 2

\* C2: read-after-write dependencies are honoured.  Once every fetched
\* instruction has been retired, the register file equals the register file
\* of the in-order reference run of the same instructions.
C2_SequentialResult ==
  (Len(retired) = fetched_instrs /\ fetched_instrs >= 1) => reg_file = seq_reg

\* C4: every reservation station entry marked running is held by exactly one
\* functional unit.
C4_RunningHeldByOneFU ==
  \A i \in RsIdx :
    (RS[i].valid /\ RS[i].running) =>
      Cardinality({f \in FuIdx : FUs[f].busy /\ FUs[f].rs_index = i}) = 1

\* C5: an execute call pushes at most one result on the CDB and clears at
\* most one functional unit.
C5_OnePushPerExecute == exec_pushes <= 1 /\ exec_cleared <= 1

(***************************************************************************)
(* Properties of the decoder.                                              *)
(***************************************************************************)
\* a recognized opcode with a func3 / imm combination decode does not know
IllegalCombination(w) ==
  \/ F_opcode(w) = Opcode.B /\ F_func3(w) \in {2, 3}
  \/ F_opcode(w) = Opcode.SYS /\ F_func3(w) = 0
       /\ F_imm12(w) \notin {0, 1, 2, 258, 770}
  \/ F_opcode(w) = Opcode.SYS /\ F_func3(w) = 4

\* C10: decode never ends the process; it returns a descriptor or the absent
\* value, and returns the absent value for an unrecognized opcode and for an
\* unrecognized func3 / imm combination of a recognized opcode.
C10_DecodeNeverAborts ==
  dec_out.kind # "idle" =>
    /\ dec_out.kind \in {"instr", "null"}
    /\ F_opcode(dec_word) \notin OpcodeSet => dec_out.kind = "null"
    /\ IllegalCombination(dec_word) => dec_out.kind = "null"

\* bit k of an instruction word, and the field instr[h:l]
InstrBit(w, k) ==
  IF k < 16 THEN (w.lo \div Pow2(k)) % 2 ELSE (w.hi \div Pow2(k - 16)) % 2

RECURSIVE InstrBits(_, _, _)
InstrBits(w, h, l) ==
  IF h < l THEN 0 ELSE InstrBit(w, l) + 2 * InstrBits(w, h, l + 1)

\* the n-bit pattern v read as a two's-complement number
Signed(v, n) == IF v >= Pow2(n - 1) THEN v - Pow2(n) ELSE v

\* C11: the ALU micro-op depends on bit 5 of func7 only.  For opcode R with
\* func3 = 0, alu_op is SUB iff bit 5 of func7 is set, otherwise ADD; for
\* func3 = 5 (opcode R and opcode I) alu_op is SRA iff bit 5 of func7 is set,
\* otherwise SRL; opcode I with func3 = 0 is always ADD.
C11_Func7Bit5 ==
  (dec_out.kind = "instr" /\ dec_out.opcode \in {Opcode.R, Opcode.I}) =>
    LET bit5 == InstrBit(dec_word, 30) = 1
    IN  /\ dec_out.func3 = 0 =>
             dec_out.alu_op = (IF dec_out.opcode = Opcode.R /\ bit5
                                 THEN "SUB" ELSE "ADD")
        /\ dec_out.func3 = 5 =>
             dec_out.alu_op = (IF bit5 THEN "SRA" ELSE "SRL")

\* the immediate each class prescribes, from the bits of the word
ImmRule(w) ==
  LET opcode == InstrBits(w, 6, 0)
      func3  == InstrBits(w, 14, 12)
  IN
  CASE opcode = Opcode.I /\ func3 \in {1, 5} -> InstrBits(w, 24, 20)
    [] opcode \in {Opcode.I, Opcode.L, Opcode.JALR} ->
         Signed(InstrBits(w, 31, 20), 12)
    [] opcode = Opcode.SYS -> InstrBits(w, 31, 20)
    [] opcode = Opcode.S ->
         Signed(InstrBits(w, 31, 25) * 32 + InstrBits(w, 11, 7), 12)
    [] opcode = Opcode.B ->
         Signed(InstrBit(w, 7) * 2048 + InstrBits(w, 11, 8) * 2
                + InstrBits(w, 30, 25) * 32 + InstrBit(w, 31) * 4096, 13)
    [] opcode \in {Opcode.LUI, Opcode.AUIPC} ->
         Signed(InstrBits(w, 31, 12), 20) * 4096
    [] opcode = Opcode.JAL ->
         Signed(InstrBits(w, 19, 12) * 4096 + InstrBit(w, 20) * 2048
                + InstrBits(w, 30, 21) * 2 + InstrBit(w, 31) * 1048576, 21)
    [] OTHER -> 0

\* C12: for every word with a recognized opcode the decoded imm is the
\* immediate its class prescribes (I-type, shift, SYS, S, B, U and J rules);
\* B and J offsets are even; classes without an immediate decode imm = 0.
C12_ImmFormation ==
  dec_out.kind = "instr" =>
    /\ dec_out.imm = ImmRule(dec_word)
    /\ dec_out.opcode \in {Opcode.B, Opcode.JAL} => dec_out.imm % 2 = 0

\* a branch word with a negative offset has been decoded
C12_Witness ==
  /\ dec_out.kind = "instr"
  /\ dec_out.opcode = Opcode.B
  /\ dec_out.imm < 0
  /\ InstrBit(dec_word, 7) = 1

(***************************************************************************)
(* Properties of the scheduler.                                            *)
(***************************************************************************)
\* C13: an execute call dispatches at most one RS entry to each functional
\* unit (so of two ready entries of the same fu_type at most one is marked
\* running), and none to a unit that still holds an accepted operation.
C13_OneDispatchPerFU ==
  \A f \in FuIdx :
    /\ exec_sched[f].calls <= 1
    /\ exec_sched[f].held => exec_sched[f].calls = 0

\* C14: liveness.  While cycles keep running (the driver has not halted on
\* exit) and every functional unit finishes within MaxLatency cycles, the
\* k-th instruction that issue placed into the RS and ROB is eventually the
\* k-th instruction retired by commit.
C14_EventuallyRetired ==
  \A k \in 1 .. MaxFetch :
    (Len(issued) >= k) ~> (Len(retired) >= k \/ exited)

(***************************************************************************)
(* Properties of issue.                                                    *)
(***************************************************************************)
\* C15: tag consistency.  Whenever a valid RS entry waits on operand tag k,
\* the producer (the instruction in ROB slot k, which RAT named at issue) sits
\* in RS slot k, so that its CDB broadcast carries rs_index = k and no other
\* instruction's broadcast can match the tag first.
C15_TagConsistency ==
  \A i \in RsIdx :
    RS[i].valid =>
      \A k \in {RS[i].rs1_index, RS[i].rs2_index} \ {-1} :
        /\ k \in RsIdx \ {i}
        /\ RS[k].valid
        /\ RS[k].rob_index = k

\* a call of issue that is not stalled
IssuePlaces ==
  /\ stage = "issue"
  /\ issue_queue # << >>
  /\ \E i \in RsIdx : ~RS[i].valid
  /\ ROB.count < NumROB

\* the RS slot an issue step fills
IssuedSlot == CHOOSE i \in RsIdx : ~RS[i].valid /\ RS'[i].valid

\* the operand rule, on the state before the step
OperandRule(use, r, data, tag) ==
  IF ~use THEN data = 0 /\ tag = -1
  ELSE IF RAT[r] = -1 THEN data = reg_file[r] /\ tag = -1
  ELSE IF ROB.store[RAT[r]].ready
    THEN data = ROB.store[RAT[r]].result /\ tag = -1
  ELSE tag = RAT[r]

C18_RSTUpdate ==
  [][IssuePlaces =>
       /\ RST'[ROB.tail] = IssuedSlot
       /\ \A j \in (DOMAIN RST) \ {ROB.tail} : RST'[j] = RST[j]]_vars

(***************************************************************************)
(* Properties of writeback and of the RS entry lifecycle.                  *)
(***************************************************************************)
\* one operand of an RS entry after a broadcast
OperandAfter(tag, data, tag2, data2) ==
  IF tag = CDB.rs_index
    THEN data2 = CDB.result /\ tag2 = -1
    ELSE data2 = data /\ tag2 = tag

\* C19: writeback postcondition.  With (result, rob_index, rs_index) on the
\* CDB, after writeback every RS operand whose tag equalled rs_index holds
\* the result with tag -1 and every other operand is unchanged, RS slot
\* rs_index is released, ROB[rob_index] is ready with the result stored, no
\* other ROB entry changes and the CDB is empty; with an empty CDB writeback
\* changes nothing.
C19_Writeback ==
  [][stage = "writeback" =>
       IF CDB.valid
         THEN /\ \A i \in RsIdx \ {CDB.rs_index} :
                   /\ OperandAfter(RS[i].rs1_index, RS[i].rs1_data,
                                   RS'[i].rs1_index, RS'[i].rs1_data)
                   /\ OperandAfter(RS[i].rs2_index, RS[i].rs2_data,
                                   RS'[i].rs2_index, RS'[i].rs2_data)
                   /\ RS'[i].valid = RS[i].valid
                   /\ RS'[i].running = RS[i].running
                   /\ RS'[i].instr = RS[i].instr
                   /\ RS'[i].rob_index = RS[i].rob_index
              /\ ~RS'[CDB.rs_index].valid
              /\ ~RS'[CDB.rs_index].running
              /\ ROB'.store[CDB.rob_index].ready
              /\ ROB'.store[CDB.rob_index].result = CDB.result
              /\ ROB'.store[CDB.rob_index].instr = ROB.store[CDB.rob_index].instr
              /\ \A t \in RobIdx \ {CDB.rob_index} : ROB'.store[t] = ROB.store[t]
              /\ ROB'.head = ROB.head /\ ROB'.tail = ROB.tail
              /\ ROB'.count = ROB.count
              /\ ~CDB'.valid
         ELSE UNCHANGED <<RS, ROB, CDB, RAT, RST, FUs, reg_file>>]_vars

\* writeback has just made the ROB head ready and a waiting entry has captured
\* the head's result as its rs1 operand
C19_Witness ==
  /\ stage = "execute"
  /\ ~CDB.valid
  /\ ROB.count >= 1
  /\ HeadEntry.ready
  /\ HeadEntry.instr.exe_flags.use_rd
  /\ HeadEntry.result # 0
  /\ \E i \in RsIdx :
       /\ RS[i].valid
       /\ ~RS[i].running
       /\ RS[i].instr.exe_flags.use_rs1
       /\ RS[i].instr.rs1 = HeadEntry.instr.rd
       /\ RS[i].rs1_index = -1
       /\ RS[i].rs1_data = HeadEntry.result
       /\ RS[i].rs1_data # reg_file[RS[i].instr.rs1]

C21_SingleWriter ==
  [][/\ reg_file' # reg_file => stage = "commit"
     /\ RAT' # RAT =>
          \/ /\ stage = "issue"
             /\ \E r \in Regs : RAT' = [RAT EXCEPT ![r] = ROB.tail]
          \/ /\ stage = "commit"
             /\ \E r \in Regs : RAT' = [RAT EXCEPT ![r] = -1]
     /\ ROB' # ROB =>
          \/ stage = "issue" /\ ROB'.count = ROB.count + 1
          \/ /\ stage = "writeback"
             /\ ROB'.count = ROB.count
             /\ \E t \in RobIdx : ~ROB.store[t].ready /\ ROB'.store[t].ready
          \/ stage = "commit" /\ ROB'.count = ROB.count - 1
     /\ CDB' # CDB =>
          \/ stage = "execute" /\ ~CDB.valid /\ CDB'.valid
          \/ stage = "writeback" /\ CDB.valid /\ ~CDB'.valid]_vars

\* execute has just filled the CDB in a run in which commit has written the
\* register file and issue has installed a mapping that is still live
C21_Witness ==
  /\ stage = "issue"
  /\ CDB.valid
  /\ reg_file[1] # 0
  /\ \E r \in Regs : RAT[r] # -1 /\ RAT[r] = CDB.rob_index

====
